---- MODULE Spec2Model ----
(***************************************************************************)
(* A model of the queue-mediated multi-agent simulation backend:           *)
(*   main.py          the step engine (run_simulation_step) and endpoints  *)
(*   redis_client.py  the queue / result / failed-task store used by main  *)
(*   mongodb_client.py the alternative MongoDB store                       *)
(*   agent_core.py    the analyzer and generator agents                    *)
(*                                                                         *)
(* One step of run_simulation_step is a sequence of atomic actions; each   *)
(* action holds at most one command on the task queue, so that the         *)
(* /submit_task endpoint and other processes working on the same Redis     *)
(* list interleave with the step exactly where they can in the program.    *)
(* Wall-clock time stamps (submitted_time, completion_time, failed_time,   *)
(* the [HH:MM:SS] prefix of a memory entry) are left out of the Redis      *)
(* records; MongoDB's created_at, which orders its queue, is modelled.     *)
(* A Redis command that raises RedisError is modelled as not executed.     *)
(***************************************************************************)
EXTENDS Integers, Sequences, FiniteSets, TLC

\* ---------------------------------------------------------------- bounds
MaxSteps == 2
MaxTasks == 2
MaxWrites == 4
MaxAppends == 52
PatternLen == 2
MaxBacklog == 3
MaxLimit == 3
MaxMongoWrites == 2
MaxClock == 3

\* ------------------------------------------------------ program constants
GENERATOR_COOLDOWN == 2
ANALYZER_COOLDOWN == 1
time_step_minutes == 1
NoTaskId == 0

Agents == {"PyScanner", "JavaScanner", "CodeGen"}
\* simulation_state["agents"] is a dict: iteration follows insertion order
AgentOrder == <<"PyScanner", "JavaScanner", "CodeGen">>
IsGenerator(a) == a = "CodeGen"
IsAnalyzer(a) == a \in {"PyScanner", "JavaScanner"}

InitialStatus == [status |-> "idle", current_task_id |-> NoTaskId, cooldown_steps |-> 0]

\* Python's None for a dict-valued local, and json's decode error
None == [none |-> TRUE]
JSONDecodeError == [error |-> "JSONDecodeError"]

\* ------------------------------------------------------------------ JSON
\* json.dumps turns a dict into a string; json.loads turns a string that is
\* JSON back into the dict and raises JSONDecodeError on any other string.
JsonDumps(obj) == [json |-> obj]
JsonLoads(s) == IF "json" \in DOMAIN s THEN s.json ELSE JSONDecodeError

\* str.startswith on a text held as a sequence of words
StartsWith(text, prefix) == Len(text) >= 1 /\ text[1] = prefix

\* ------------------------------------------------- redis_client.py: queue
\* `up` says whether the Redis command goes through (no RedisError).
\* an enqueue at the head of the list (LPUSH for RPUSH)
add_task_to_queue_lpush(q, task, up) ==
    IF up THEN [ok |-> TRUE, queue |-> <<JsonDumps(task)>> \o q]
          ELSE [ok |-> FALSE, queue |-> q]

add_task_to_queue(q, task, up) ==
    IF up THEN [ok |-> TRUE, queue |-> Append(q, JsonDumps(task))]
          ELSE [ok |-> FALSE, queue |-> q]

\* a dequeue that reads the head and leaves it in the list (LINDEX for LPOP)
get_task_from_queue_peek(q, up) ==
    IF ~up \/ q = <<>> THEN [task |-> None, queue |-> q]
    ELSE LET d == JsonLoads(Head(q))
         IN  [task |-> IF d = JSONDecodeError THEN None ELSE d, queue |-> q]

\* a dequeue at the wrong end of the list (RPOP for LPOP)
get_task_from_queue_rpop(q, up) ==
    IF ~up \/ q = <<>> THEN [task |-> None, queue |-> q]
    ELSE LET d == JsonLoads(q[Len(q)])
         IN  [task |-> IF d = JSONDecodeError THEN None ELSE d,
              queue |-> SubSeq(q, 1, Len(q) - 1)]

get_task_from_queue(q, up) ==
    IF ~up \/ q = <<>> THEN [task |-> None, queue |-> q]
    ELSE LET d == JsonLoads(Head(q))
         IN  [task |-> IF d = JSONDecodeError THEN None ELSE d, queue |-> Tail(q)]

\* a length that is one too large
get_queue_length_off(q, up) == IF up THEN Len(q) + 1 ELSE 0

get_queue_length(q, up) == IF up THEN Len(q) ELSE 0

\* LRANGE key start stop on a Redis list: offsets count from 0, a negative
\* offset counts from the end of the list (-1 is the last element), and
\* offsets out of range are clipped
LRange(q, start, stop) ==
    LET n == Len(q)
        first == IF start < 0 THEN (IF n + start < 0 THEN 0 ELSE n + start) ELSE start
        last == IF stop < 0 THEN n + stop ELSE (IF stop > n - 1 THEN n - 1 ELSE stop)
    IN  IF first > last \/ first >= n THEN <<>> ELSE SubSeq(q, first + 1, last + 1)

\* the entries of a list that are JSON, decoded (redis_client.py:83-87)
DecodedTasks(entries) ==
    LET ok == SelectSeq(entries, LAMBDA e : JsonLoads(e) # JSONDecodeError)
    IN  [i \in 1..Len(ok) |-> JsonLoads(ok[i])]

peek_tasks(q, limit, up) ==
    IF up THEN DecodedTasks(LRange(q, 0, limit - 1)) ELSE <<>>

\* --------------------------------------------- redis_client.py: results
\* HSET on a Redis hash: the field's value is replaced
HSet(h, k, v) == [x \in DOMAIN h \cup {k} |-> IF x = k THEN v ELSE h[x]]

\* HSETNX for HSET: the first value written under a field stays
store_result_first_wins(h, task_id, result_data, up) ==
    IF up THEN [ok |-> TRUE,
                store |-> IF task_id \in DOMAIN h THEN h
                          ELSE HSet(h, task_id, JsonDumps(result_data))]
          ELSE [ok |-> FALSE, store |-> h]

\* a store that reports success and writes nothing
store_result_dropped(h, task_id, result_data, up) ==
    [ok |-> up, store |-> h]

store_result(h, task_id, result_data, up) ==
    IF up THEN [ok |-> TRUE, store |-> HSet(h, task_id, JsonDumps(result_data))]
          ELSE [ok |-> FALSE, store |-> h]

get_result(h, task_id, up) ==
    IF up /\ task_id \in DOMAIN h
    THEN LET d == JsonLoads(h[task_id]) IN IF d = JSONDecodeError THEN None ELSE d
    ELSE None

get_results_count(h, up) == IF up THEN Cardinality(DOMAIN h) ELSE 0

\* the failure is reported as recorded and the list is left as it was
add_failed_task_unrecorded(f, failed_task_data, error_message, up) ==
    [ok |-> up, list |-> f]

add_failed_task(f, failed_task_data, error_message, up) ==
    IF up THEN [ok |-> TRUE,
                list |-> Append(f, JsonDumps([failed_task |-> failed_task_data,
                                              error |-> error_message]))]
          ELSE [ok |-> FALSE, list |-> f]

\* ------------------------------------------------- agent_core.py: memory
CYBER_MEMORY_CAP == 50
GENERATOR_MEMORY_CAP == 20

\* Python's s[-n:] for n >= 1
LastN(s, n) == IF Len(s) <= n THEN s ELSE SubSeq(s, Len(s) - n + 1, Len(s))
\* Python's s[:n]
FirstN(s, n) == IF Len(s) <= n THEN s ELSE SubSeq(s, 1, n)

\* the cap applied with [:cap]: the newest entry is the one dropped
AppendCappedKeepOldest(mem, entry, cap) ==
    LET m == Append(mem, entry) IN IF Len(m) > cap THEN FirstN(m, cap) ELSE m

\* memories.append(entry); if len(memories) > cap: memories = memories[-cap:]
AppendCapped(mem, entry, cap) ==
    LET m == Append(mem, entry) IN IF Len(m) > cap THEN LastN(m, cap) ELSE m

CybersecurityAgent_add_memory(mem, entry) == AppendCapped(mem, entry, CYBER_MEMORY_CAP)
CodeGeneratorAgent_add_memory(mem, entry) == AppendCapped(mem, entry, GENERATOR_MEMORY_CAP)

\* ------------------------------------------- agent_core.py: perform_task
\* What the LLM collaborator does on one analysis request.  A completion may
\* itself begin with the word "Error:".  requests.post raises Timeout or
\* ConnectionError, raise_for_status raises HTTPError on a bad status, and
\* response.json() raises on a body that is not JSON (a RequestException
\* with the requests of today, a ValueError with older ones); a body of
\* another shape raises a TypeError or AttributeError at line 130-131.
AnalyzerLLM ==
    { [kind |-> "ok", content |-> <<"finding">>],
      [kind |-> "ok", content |-> <<"Error:", "said the model">>],
      [kind |-> "no_choices", content |-> <<>>],
      [kind |-> "timeout", content |-> <<>>],
      [kind |-> "connection_error", content |-> <<>>],
      [kind |-> "bad_status", content |-> <<>>],
      [kind |-> "bad_json", content |-> <<>>],
      [kind |-> "unexpected", content |-> <<>>] }

\* the outcomes caught as requests.exceptions.RequestException
RequestExceptions == {"connection_error", "bad_status", "bad_json"}

ErrNoContext == <<"Error:", "No target context provided for analysis.">>

\* an analysis whose failures come back without the failure marker
CybersecurityAgent_perform_task_untagged(mem, target_context, llm) ==
    IF target_context = ""
    THEN [result |-> ErrNoContext,
          memories |-> CybersecurityAgent_add_memory(mem,
                          <<"Skipped task: No target context provided.">>),
          llm_called |-> FALSE]
    ELSE IF llm.kind = "ok"
    THEN [result |-> llm.content,
          memories |-> CybersecurityAgent_add_memory(mem,
                          <<"Analysis complete. Result snippet:">> \o llm.content),
          llm_called |-> TRUE]
    ELSE [result |-> <<"LLM request failed", llm.kind>>,
          memories |-> CybersecurityAgent_add_memory(mem, <<"Error:", llm.kind>>),
          llm_called |-> TRUE]

\* CybersecurityAgent.perform_task: the text returned, the memory log after
\* it, and whether the LLM collaborator was called
CybersecurityAgent_perform_task(mem, target_context, llm) ==
    IF target_context = ""
    THEN [result |-> ErrNoContext,
          memories |-> CybersecurityAgent_add_memory(mem,
                          <<"Skipped task: No target context provided.">>),
          llm_called |-> FALSE]
    ELSE CASE llm.kind = "ok" ->
               [result |-> llm.content,
                memories |-> CybersecurityAgent_add_memory(mem,
                                <<"Analysis complete. Result snippet:">> \o llm.content),
                llm_called |-> TRUE]
           [] llm.kind = "no_choices" ->
               [result |-> <<"Error:", "Could not parse LLM response.">>,
                memories |-> CybersecurityAgent_add_memory(mem,
                                <<"Error:", "Unexpected response format from LLM.">>),
                llm_called |-> TRUE]
           [] llm.kind = "timeout" ->
               [result |-> <<"Error:", "LLM request timed out.">>,
                memories |-> CybersecurityAgent_add_memory(mem,
                                <<"Error:", "LLM request timed out.">>),
                llm_called |-> TRUE]
           [] llm.kind \in RequestExceptions ->
               [result |-> <<"Error:", "Failed to connect to LLM -", llm.kind>>,
                memories |-> CybersecurityAgent_add_memory(mem,
                                <<"Error:", "LLM connection failed -", llm.kind>>),
                llm_called |-> TRUE]
           [] OTHER ->
               [result |-> <<"Error:", "An unexpected analysis error occurred -", llm.kind>>,
                memories |-> CybersecurityAgent_add_memory(mem,
                                <<"Error:", "Unexpected analysis error -", llm.kind>>),
                llm_called |-> TRUE]

\* What the LLM collaborator does on one generation request: a JSON object
\* with the three keys, one without them, a text with no "{" in it, a text
\* between braces that is not JSON, or a failure of the request
GeneratorLLM ==
    { [kind |-> "ok", data |-> [language |-> "python", description |-> "d", code |-> "c"]],
      [kind |-> "ok", data |-> [language |-> "python", description |-> "d", code |-> ""]],
      [kind |-> "missing_keys", data |-> None],
      [kind |-> "no_json", data |-> None],
      [kind |-> "bad_json", data |-> None],
      [kind |-> "timeout", data |-> None],
      [kind |-> "connection_error", data |-> None],
      [kind |-> "bad_status", data |-> None],
      [kind |-> "unexpected", data |-> None] }

\* CodeGeneratorAgent.perform_task: the dict returned (or None) and the
\* memory log after it
CodeGeneratorAgent_perform_task(mem, llm) ==
    CASE llm.kind = "ok" ->
          [data |-> llm.data,
           memories |-> CodeGeneratorAgent_add_memory(mem,
                           <<"Generated", llm.data.language, "code:", llm.data.description>>)]
      [] llm.kind = "missing_keys" ->
          [data |-> None,
           memories |-> CodeGeneratorAgent_add_memory(mem,
                           <<"Error:", "Generated JSON missing keys.">>)]
      [] llm.kind = "bad_json" ->
          [data |-> None,
           memories |-> CodeGeneratorAgent_add_memory(mem,
                           <<"Error:", "Failed to decode generated JSON.">>)]
      [] llm.kind = "no_json" ->
          [data |-> None,
           memories |-> CodeGeneratorAgent_add_memory(mem,
                           <<"Error:", "Could not find JSON in LLM response.">>)]
      [] llm.kind = "timeout" ->
          [data |-> None,
           memories |-> CodeGeneratorAgent_add_memory(mem,
                           <<"Error:", "LLM request timed out.">>)]
      [] llm.kind \in {"connection_error", "bad_status"} ->
          [data |-> None,
           memories |-> CodeGeneratorAgent_add_memory(mem,
                           <<"Error:", "LLM connection failed -", llm.kind>>)]
      [] OTHER ->
          [data |-> None,
           memories |-> CodeGeneratorAgent_add_memory(mem,
                           <<"Error:", "Unexpected generation error -", llm.kind>>)]

\* ------------------------------------------------------- main.py: tasks
\* the task built from generated data, with the wrong field as its context
NewGeneratedTaskWrongContext(task_id, generated_data, agent_name) ==
    [task_id |-> task_id,
     description |-> <<"Analyze generated", generated_data.language, "code:",
                       generated_data.description>>,
     context |-> generated_data.description,
     language |-> generated_data.language,
     submitted_by |-> agent_name,
     status |-> "pending"]

NewGeneratedTask(task_id, generated_data, agent_name) ==
    [task_id |-> task_id,
     description |-> <<"Analyze generated", generated_data.language, "code:",
                       generated_data.description>>,
     context |-> generated_data.code,
     language |-> generated_data.language,
     submitted_by |-> agent_name,
     status |-> "pending"]

NewSubmittedTask(task_id, task_description, context, language) ==
    [task_id |-> task_id,
     description |-> task_description,
     context |-> context,
     language |-> language,
     submitted_by |-> "User",
     status |-> "pending"]

\* the result classified without looking at the text
ResultEntryAlwaysCompleted(task_id, task, analysis, agent_name) ==
    [task_id |-> task_id,
     original_task |-> task,
     analysis_result |-> analysis,
     analyzed_by |-> agent_name,
     status |-> "completed"]

ResultEntry(task_id, task, analysis, agent_name) ==
    [task_id |-> task_id,
     original_task |-> task,
     analysis_result |-> analysis,
     analyzed_by |-> agent_name,
     status |-> IF ~StartsWith(analysis, "Error:") THEN "completed" ELSE "analysis_failed"]

\* ------------------------------------------------ main.py: the cooldowns
\* the generator is made idle again at once
GeneratorStaysIdle(st, a, cooldown) ==
    [st EXCEPT ![a].status = "idle", ![a].cooldown_steps = 0]

\* main.py:78-79 and 100-101: the generator cools down
GeneratorToCooldown(st, a, cooldown) ==
    [st EXCEPT ![a].status = "cooldown", ![a].cooldown_steps = cooldown]

\* no reset: the agent is left as the analysis had it
ResetAgentStateSkipped(st, a, cooldown) == st

\* the reset without line 150: the task id stays
ResetAgentStateKeepTask(st, a, cooldown) ==
    [st EXCEPT ![a].status = "cooldown", ![a].cooldown_steps = cooldown]

\* main.py:149-151: reset agent state after processing
ResetAgentState(st, a, cooldown) ==
    [st EXCEPT ![a].status = "cooldown",
               ![a].current_task_id = NoTaskId,
               ![a].cooldown_steps = cooldown]

UpdateCooldowns(st) ==
    [a \in Agents |->
        IF st[a].cooldown_steps > 0
        THEN [st[a] EXCEPT
                !.cooldown_steps = @ - 1,
                !.status = IF st[a].cooldown_steps - 1 = 0 /\ @ = "cooldown"
                           THEN "idle" ELSE @]
        ELSE st[a]]

\* the generator loop without the test `status == 'idle'`
NextGeneratorAnyStatus(st, i) ==
    LET c == {j \in i..Len(AgentOrder) : IsGenerator(AgentOrder[j])}
    IN  IF c = {} THEN Len(AgentOrder) + 1 ELSE CHOOSE j \in c : \A k \in c : j <= k

\* position in AgentOrder of the first agent at or after i that the generator
\* loop triggers (a generator that is idle); Len(AgentOrder) + 1 if none
NextIdleGenerator(st, i) ==
    LET c == {j \in i..Len(AgentOrder) :
                IsGenerator(AgentOrder[j]) /\ st[AgentOrder[j]].status = "idle"}
    IN  IF c = {} THEN Len(AgentOrder) + 1 ELSE CHOOSE j \in c : \A k \in c : j <= k

\* a loop that goes back to the first agent whenever it looks for the next
NextAnalyzerFirst(st, i) == 1

\* position of the first agent at or after i for which the analyzer loop
\* goes on to read the queue length (an analyzer that is idle)
NextIdleAnalyzer(st, i) ==
    LET c == {j \in i..Len(AgentOrder) :
                IsAnalyzer(AgentOrder[j]) /\ st[AgentOrder[j]].status = "idle"}
    IN  IF c = {} THEN Len(AgentOrder) + 1 ELSE CHOOSE j \in c : \A k \in c : j <= k

\* ================================================================ state
VARIABLES
    \* main.py: simulation_state
    agent_statuses,     \* agent name -> [status, current_task_id, cooldown_steps]
    generator_cooldown, \* simulation_state["generator_cooldown"]
    analyzer_cooldown,  \* simulation_state["analyzer_cooldown"]
    current_time,       \* simulated minutes since the start time
    memories,           \* agent name -> the agent object's memories list
    \* Redis
    task_queue,         \* list cyber:task_queue, oldest first
    results_store,      \* hash cyber:results_store: task_id -> result JSON
    failed_tasks,       \* list cyber:failed_tasks
    \* the /step request being served
    pc,                 \* "idle" when no step runs, else the place in the step
    cur,                \* position in AgentOrder of the agent being handled
    task_queue_length,  \* the local of main.py:104
    task_data,          \* the local of main.py:114
    generated_data,     \* the local of main.py:77
    enqueue_ok,         \* what add_task_to_queue returned at main.py:93
    analysis_result,    \* the local of main.py:123
    store_ok,           \* what store_result returned at main.py:139
    failed_ok,          \* what add_failed_task returned at main.py:144
    step_events,        \* the local of main.py:59
    response,           \* what the last /step request answered
    uuid4_next,         \* the next fresh task id (uuid.uuid4)
    \* history, for stating the properties
    steps_run,          \* number of /step requests begun
    enq_log,            \* ids of the tasks put on the queue, in order
    deq_log,            \* ids of the tasks get_task_from_queue returned, in order
    dequeue_attempts,   \* calls of get_task_from_queue by the current step
    llm_calls,          \* calls of the LLM collaborator by the current step
    ext_ops,            \* whether anyone else touched the queue since the step began
    pre_statuses,       \* agent_statuses when the current step began
    pre_queue_len,      \* length of task_queue when the current step began
    store_writes,       \* task_id -> the results stored under it with success, in order
    \* MongoDB (mongodb_client.py)
    mongo_task_queue,   \* collection task_queue, in insertion order
    utc_now,            \* the last reading of datetime.utcnow(), in milliseconds
    mongo_results_store, \* collection results_store: task_id -> document
    mongo_stored,       \* task_id -> the dicts store_result took under it, in order
    \* GET /tasks
    tasks_response,     \* what the last GET /tasks request answered
    \* the memory log under a long run of add_memory
    mem_pattern,        \* the texts appended, repeated in this order
    mem_count           \* agent name -> number of add_memory calls made

simVars == <<agent_statuses, generator_cooldown, analyzer_cooldown, current_time, memories>>
redisVars == <<task_queue, results_store, failed_tasks>>
stepVars == <<pc, cur, task_queue_length, task_data, generated_data, enqueue_ok,
              analysis_result, store_ok, failed_ok, step_events, response>>
histVars == <<steps_run, enq_log, deq_log, dequeue_attempts, llm_calls, ext_ops,
              pre_statuses, pre_queue_len>>
queryVars == <<tasks_response>>
mongoStoreVars == <<mongo_results_store, mongo_stored>>
sideVars == <<queryVars, mongoStoreVars>>
otherVars == <<store_writes, mongo_task_queue, utc_now, sideVars,
               mem_pattern, mem_count>>
vars == <<simVars, redisVars, stepVars, histVars, uuid4_next, otherVars>>

NoResponse == [status |-> 0]

\* the agent of each class whose memory log is run to its cap
MemoryAgents == {"PyScanner", "CodeGen"}
MemoryTexts == {<<"a">>, <<"b">>}

\* the state of a fresh process that finds `queue` on the Redis list, with
\* the cooldowns configured as given; `ids` are the ids of the tasks on it
InitState(queue, ids, gen_cooldown, an_cooldown) ==
    /\ agent_statuses = [a \in Agents |-> InitialStatus]
    /\ generator_cooldown = gen_cooldown
    /\ analyzer_cooldown = an_cooldown
    /\ current_time = 0
    /\ memories = [a \in Agents |-> <<>>]
    /\ task_queue = queue
    /\ results_store = <<>>
    /\ failed_tasks = <<>>
    /\ pc = "idle"
    /\ cur = 0
    /\ task_queue_length = 0
    /\ task_data = None
    /\ generated_data = None
    /\ enqueue_ok = FALSE
    /\ analysis_result = <<>>
    /\ store_ok = FALSE
    /\ failed_ok = FALSE
    /\ step_events = <<>>
    /\ response = NoResponse
    /\ uuid4_next = Len(ids) + 1
    /\ steps_run = 0
    /\ enq_log = ids
    /\ deq_log = <<>>
    /\ dequeue_attempts = 0
    /\ llm_calls = 0
    /\ ext_ops = FALSE
    /\ pre_statuses = [a \in Agents |-> InitialStatus]
    /\ pre_queue_len = 0
    /\ store_writes = [id \in 1..MaxTasks |-> <<>>]
    /\ mongo_task_queue = <<>>
    /\ utc_now = 0
    /\ tasks_response = NoResponse
    /\ mongo_results_store = <<>>
    /\ mongo_stored = [id \in 1..MaxTasks |-> <<>>]
    /\ mem_count = [a \in MemoryAgents |-> 0]

InitSim == InitState(<<>>, <<>>, GENERATOR_COOLDOWN, ANALYZER_COOLDOWN)

Init ==
    /\ InitSim
    /\ mem_pattern = [i \in 1..PatternLen |-> <<"a">>]

\* ================================================ run_simulation_step
\* the step ends after the generators, with no analysis phase
AfterGeneratorSkipAnalysis(st, i) ==
    IF NextIdleGenerator(st, i) <= Len(AgentOrder)
    THEN [pc |-> "gen", cur |-> NextIdleGenerator(st, i)]
    ELSE [pc |-> "advance", cur |-> 0]

\* where the step goes after the generator at position i
AfterGenerator(st, i) ==
    IF NextIdleGenerator(st, i) <= Len(AgentOrder)
    THEN [pc |-> "gen", cur |-> NextIdleGenerator(st, i)]
    ELSE [pc |-> "len", cur |-> 0]

\* where the step goes in the analyzer loop from position i on
AfterAnalyzer(st, i) ==
    IF NextIdleAnalyzer(st, i) <= Len(AgentOrder)
    THEN [pc |-> "check", cur |-> NextIdleAnalyzer(st, i)]
    ELSE [pc |-> "advance", cur |-> 0]

\* the loop goes on to the next idle analyzer after an empty dequeue
AfterEmptyDequeueContinue(st, i) == AfterAnalyzer(st, i + 1)

\* where the step goes when the dequeue at position i came back empty
\* (main.py:153-156): the break leaves the analyzer loop
AfterEmptyDequeue(st, i) == [pc |-> "advance", cur |-> 0]

\* POST /step arrives: the locals are fresh and the cooldowns are updated
\* (main.py:56-68)
StepBegin ==
    /\ pc = "idle"
    /\ steps_run < MaxSteps
    /\ LET st == UpdateCooldowns(agent_statuses)
           nxt == AfterGenerator(st, 1)
       IN  /\ agent_statuses' = st
           /\ pc' = nxt.pc
           /\ cur' = nxt.cur
           /\ step_events' =
                 SelectSeq([i \in 1..Len(AgentOrder) |-> <<AgentOrder[i], "finished cooldown, now idle">>],
                           LAMBDA e : agent_statuses[e[1]].status = "cooldown"
                                      /\ st[e[1]].status = "idle")
    /\ task_queue_length' = 0
    /\ task_data' = None
    /\ generated_data' = None
    /\ enqueue_ok' = FALSE
    /\ analysis_result' = <<>>
    /\ store_ok' = FALSE
    /\ failed_ok' = FALSE
    /\ response' = NoResponse
    /\ steps_run' = steps_run + 1
    /\ dequeue_attempts' = 0
    /\ llm_calls' = 0
    /\ ext_ops' = FALSE
    /\ pre_statuses' = agent_statuses
    /\ pre_queue_len' = Len(task_queue)
    /\ UNCHANGED <<generator_cooldown, analyzer_cooldown, current_time, memories,
                   redisVars, uuid4_next, enq_log, deq_log>>
    /\ UNCHANGED otherVars

\* main.py:74-76: an idle generator is marked generating
GenTrigger ==
    /\ pc = "gen"
    /\ agent_statuses' = [agent_statuses EXCEPT ![AgentOrder[cur]].status = "generating"]
    /\ pc' = "generating"
    /\ UNCHANGED <<generator_cooldown, analyzer_cooldown, current_time, memories,
                   redisVars, cur, task_queue_length, task_data, generated_data,
                   enqueue_ok, analysis_result, store_ok, failed_ok, step_events,
                   response, histVars, uuid4_next>>
    /\ UNCHANGED otherVars

\* main.py:77-101: the generator's perform_task returns, the agent goes to
\* cooldown and the generated task, if any, is put on the queue
GenFinish(llm, up) ==
    /\ pc = "generating"
    /\ llm.kind = "ok" => uuid4_next <= MaxTasks
    /\ LET a == AgentOrder[cur]
           r == CodeGeneratorAgent_perform_task(memories[a], llm)
           st == GeneratorToCooldown(agent_statuses, a, generator_cooldown)
           new_task == NewGeneratedTask(uuid4_next, r.data, a)
           e == add_task_to_queue(task_queue, new_task, up)
           nxt == AfterGenerator(st, cur + 1)
       IN  /\ memories' = [memories EXCEPT ![a] = r.memories]
           /\ generated_data' = r.data
           /\ agent_statuses' = st
           /\ IF r.data # None
              THEN /\ task_queue' = e.queue
                   /\ enqueue_ok' = e.ok
                   /\ uuid4_next' = uuid4_next + 1
                   /\ enq_log' = IF e.ok THEN Append(enq_log, uuid4_next) ELSE enq_log
                   /\ step_events' = Append(step_events,
                         <<a, IF e.ok THEN "generated task and added to queue"
                                      ELSE "failed to add generated task to queue">>)
              ELSE /\ step_events' = Append(step_events, <<a, "failed to generate code">>)
                   /\ UNCHANGED <<task_queue, enqueue_ok, uuid4_next, enq_log>>
           /\ pc' = nxt.pc
           /\ cur' = nxt.cur
    /\ llm_calls' = llm_calls + 1
    /\ UNCHANGED <<generator_cooldown, analyzer_cooldown, current_time, results_store,
                   failed_tasks, task_queue_length, task_data, analysis_result,
                   store_ok, failed_ok, response, steps_run, deq_log,
                   dequeue_attempts, ext_ops, pre_statuses, pre_queue_len>>
    /\ UNCHANGED otherVars

\* main.py:104-107: the queue length is read once for the whole analyzer phase
LenCheck(up) ==
    /\ pc = "len"
    /\ LET n == get_queue_length(task_queue, up)
           nxt == IF n > 0 THEN AfterAnalyzer(agent_statuses, 1)
                           ELSE [pc |-> "advance", cur |-> 0]
       IN  /\ task_queue_length' = n
           /\ pc' = nxt.pc
           /\ cur' = nxt.cur
    /\ UNCHANGED <<simVars, redisVars, task_data, generated_data, enqueue_ok,
                   analysis_result, store_ok, failed_ok, step_events, response,
                   histVars, uuid4_next>>
    /\ UNCHANGED otherVars

\* main.py:112: for an idle analyzer the queue length is read again
AnCheck(up) ==
    /\ pc = "check"
    /\ LET n == get_queue_length(task_queue, up)
           nxt == IF n > 0 THEN [pc |-> "pop", cur |-> cur]
                           ELSE AfterAnalyzer(agent_statuses, cur + 1)
       IN  /\ pc' = nxt.pc
           /\ cur' = nxt.cur
    /\ UNCHANGED <<simVars, redisVars, task_queue_length, task_data, generated_data,
                   enqueue_ok, analysis_result, store_ok, failed_ok, step_events,
                   response, histVars, uuid4_next>>
    /\ UNCHANGED otherVars

\* run_simulation_step is left: its locals are gone
Return ==
    /\ pc' = "idle"
    /\ cur' = 0
    /\ task_queue_length' = 0
    /\ task_data' = None
    /\ generated_data' = None
    /\ enqueue_ok' = FALSE
    /\ analysis_result' = <<>>
    /\ store_ok' = FALSE
    /\ failed_ok' = FALSE
    /\ step_events' = <<>>
    /\ dequeue_attempts' = 0
    /\ llm_calls' = 0
    /\ ext_ops' = FALSE
    /\ pre_statuses' = [a \in Agents |-> InitialStatus]
    /\ pre_queue_len' = 0

\* an exception leaves run_simulation_step; trigger_simulation_step answers
\* 500 (main.py:188-191) and nothing else is done
Raise500 ==
    /\ Return
    /\ response' = [status |-> 500]

\* main.py:114-120 and 153-156: the dequeue; a task is assigned, or the loop
\* is left
AnPop(up) ==
    /\ pc = "pop"
    /\ LET a == AgentOrder[cur]
           r == get_task_from_queue(task_queue, up)
       IN  /\ task_queue' = r.queue
           /\ IF r.task = None
              THEN \* break
                   /\ pc' = AfterEmptyDequeue(agent_statuses, cur).pc
                   /\ cur' = AfterEmptyDequeue(agent_statuses, cur).cur
                   /\ task_data' = r.task
                   /\ dequeue_attempts' = dequeue_attempts + 1
                   /\ UNCHANGED <<agent_statuses, deq_log, response, task_queue_length,
                                  generated_data, enqueue_ok, analysis_result, store_ok,
                                  failed_ok, step_events, llm_calls, ext_ops,
                                  pre_statuses, pre_queue_len>>
              ELSE IF "task_id" \notin DOMAIN r.task
              THEN \* KeyError at main.py:117
                   /\ Raise500
                   /\ deq_log' = Append(deq_log, NoTaskId)
                   /\ UNCHANGED agent_statuses
              ELSE /\ agent_statuses' =
                        [agent_statuses EXCEPT ![a].status = "analyzing",
                                               ![a].current_task_id = r.task.task_id]
                   /\ pc' = "analyzing"
                   /\ task_data' = r.task
                   /\ deq_log' = Append(deq_log, r.task.task_id)
                   /\ dequeue_attempts' = dequeue_attempts + 1
                   /\ UNCHANGED <<cur, response, task_queue_length, generated_data,
                                  enqueue_ok, analysis_result, store_ok, failed_ok,
                                  step_events, llm_calls, ext_ops, pre_statuses,
                                  pre_queue_len>>
    /\ UNCHANGED <<generator_cooldown, analyzer_cooldown, current_time, memories,
                   results_store, failed_tasks, uuid4_next, steps_run, enq_log>>
    /\ UNCHANGED otherVars

\* main.py:123-127: KeyError while the arguments of perform_task are
\* evaluated, for a task without a description or a context
AnAnalyzeRaise ==
    /\ pc = "analyzing"
    /\ "description" \notin DOMAIN task_data \/ "context" \notin DOMAIN task_data
    /\ Raise500
    /\ UNCHANGED <<simVars, redisVars, uuid4_next, steps_run, enq_log, deq_log>>
    /\ UNCHANGED otherVars

\* main.py:123-151: the analysis, the result stored, the failure recorded,
\* the agent sent to cooldown
AnAnalyze(llm, upStore, upFailed) ==
    /\ pc = "analyzing"
    /\ "description" \in DOMAIN task_data /\ "context" \in DOMAIN task_data
    /\ LET a == AgentOrder[cur]
           task_id == task_data.task_id
           r == CybersecurityAgent_perform_task(memories[a], task_data.context, llm)
           result_entry == ResultEntry(task_id, task_data, r.result, a)
           s == store_result(results_store, task_id, result_entry, upStore)
           f == add_failed_task(failed_tasks, task_data, r.result, upFailed)
           st == ResetAgentState(agent_statuses, a, analyzer_cooldown)
           nxt == AfterAnalyzer(st, cur + 1)
       IN  /\ memories' = [memories EXCEPT ![a] = r.memories]
           /\ analysis_result' = r.result
           /\ llm_calls' = llm_calls + (IF r.llm_called THEN 1 ELSE 0)
           /\ results_store' = s.store
           /\ store_ok' = s.ok
           /\ IF result_entry.status = "analysis_failed"
              THEN /\ failed_tasks' = f.list
                   /\ failed_ok' = f.ok
                   /\ step_events' = Append(step_events, <<a, "failed analysis">>)
              ELSE /\ step_events' = Append(step_events, <<a, "completed analysis">>)
                   /\ failed_ok' = FALSE
                   /\ UNCHANGED failed_tasks
           /\ agent_statuses' = st
           /\ pc' = nxt.pc
           /\ cur' = nxt.cur
    /\ UNCHANGED <<generator_cooldown, analyzer_cooldown, current_time, task_queue,
                   response, task_queue_length, task_data, generated_data, enqueue_ok,
                   uuid4_next, steps_run, enq_log, deq_log, dequeue_attempts,
                   ext_ops, pre_statuses, pre_queue_len>>
    /\ UNCHANGED otherVars

\* the clock moves by one step size for every event of the step
AdvanceTimeByWork(t) == t + time_step_minutes * Len(step_events)

\* main.py:159: the simulated time after a step that began at time t
AdvanceTime(t) == t + time_step_minutes

\* main.py:158-168: the clock advances and the summary is returned
Advance(upLen, upCount) ==
    /\ pc = "advance"
    /\ current_time' = AdvanceTime(current_time)
    /\ response' = [status |-> 200,
                    step_time |-> current_time,
                    next_time |-> AdvanceTime(current_time),
                    queue_length |-> get_queue_length(task_queue, upLen),
                    results_count |-> get_results_count(results_store, upCount),
                    step_events |-> step_events]
    /\ Return
    /\ UNCHANGED <<agent_statuses, generator_cooldown, analyzer_cooldown, memories,
                   redisVars, uuid4_next, steps_run, enq_log, deq_log>>
    /\ UNCHANGED otherVars

\* ===================================================== other callers
\* POST /submit_task (main.py:206-226)
submit_task_to_queue(context, up) ==
    /\ uuid4_next <= MaxTasks
    /\ LET new_task == NewSubmittedTask(uuid4_next, <<"d">>, context, "None")
           e == add_task_to_queue(task_queue, new_task, up)
       IN  /\ task_queue' = e.queue
           /\ enq_log' = IF e.ok THEN Append(enq_log, uuid4_next) ELSE enq_log
    /\ uuid4_next' = uuid4_next + 1
    /\ ext_ops' = TRUE
    /\ UNCHANGED <<simVars, results_store, failed_tasks, stepVars, steps_run, deq_log,
                   dequeue_attempts, llm_calls, pre_statuses, pre_queue_len>>
    /\ UNCHANGED otherVars

\* a task another program pushes without a description
ForeignTask(id) ==
    JsonDumps([task_id |-> id, context |-> "c", submitted_by |-> "Other",
               status |-> "pending"])

\* what another program may push on cyber:task_queue: a task written with
\* other field names (no description), or a string that is not JSON
ForeignEntries(id) == { ForeignTask(id), [raw |-> id] }

\* another process pushes an entry on the Redis list
ExternalProducer(entry) ==
    /\ uuid4_next <= MaxTasks
    /\ task_queue' = Append(task_queue, entry)
    /\ enq_log' = IF "json" \in DOMAIN entry THEN Append(enq_log, uuid4_next) ELSE enq_log
    /\ uuid4_next' = uuid4_next + 1
    /\ ext_ops' = TRUE
    /\ UNCHANGED <<simVars, results_store, failed_tasks, stepVars, steps_run, deq_log,
                   dequeue_attempts, llm_calls, pre_statuses, pre_queue_len>>
    /\ UNCHANGED otherVars

\* another worker process calls get_task_from_queue
ExternalConsumer ==
    /\ task_queue # <<>>
    /\ LET r == get_task_from_queue(task_queue, TRUE)
       IN  /\ task_queue' = r.queue
           /\ deq_log' = IF r.task # None /\ "task_id" \in DOMAIN r.task
                         THEN Append(deq_log, r.task.task_id) ELSE deq_log
    /\ ext_ops' = TRUE
    /\ UNCHANGED <<simVars, results_store, failed_tasks, stepVars, uuid4_next, steps_run,
                   enq_log, dequeue_attempts, llm_calls, pre_statuses, pre_queue_len>>
    /\ UNCHANGED otherVars

\* the LLM behaviours tried inside a step: one failure of each agent kind
\* stands for the others, which differ in the text only; tasks with an empty
\* context come in through /submit_task
StepGeneratorLLM ==
    {llm \in GeneratorLLM : llm.kind = "timeout" \/ (llm.kind = "ok" /\ llm.data.code # "")}
StepAnalyzerLLM == {llm \in AnalyzerLLM : llm.kind \in {"ok", "timeout"}}

Next ==
    \/ StepBegin
    \/ GenTrigger
    \/ \E llm \in StepGeneratorLLM, up \in BOOLEAN : GenFinish(llm, up)
    \/ \E up \in BOOLEAN : LenCheck(up)
    \/ \E up \in BOOLEAN : AnCheck(up)
    \/ \E up \in BOOLEAN : AnPop(up)
    \/ AnAnalyzeRaise
    \/ \E llm \in StepAnalyzerLLM, upStore \in BOOLEAN, upFailed \in BOOLEAN :
          AnAnalyze(llm, upStore, upFailed)
    \/ \E up \in BOOLEAN : Advance(up, up)
    \/ \E context \in {"", "c"}, up \in BOOLEAN : submit_task_to_queue(context, up)
    \/ \E entry \in ForeignEntries(uuid4_next) : ExternalProducer(entry)
    \/ ExternalConsumer

Spec == Init /\ [][Next]_vars

\* ================================================ the Redis result store
\* the results a caller stores under a task id, built as main.py:131-138
\* builds them
StoreResults(id) ==
    { ResultEntry(id, NewSubmittedTask(id, <<"d">>, "c", "None"), text, "PyScanner") :
        text \in {<<"finding">>, <<"Error:", "LLM request timed out.">>} }

\* store_result(task_id, result_data) called with any id, any number of times
StoreResult(id, result_data, up) ==
    /\ Len(store_writes[id]) < MaxWrites
    /\ LET s == store_result(results_store, id, result_data, up)
       IN  /\ results_store' = s.store
           /\ store_writes' = IF s.ok
                              THEN [store_writes EXCEPT ![id] = Append(@, result_data)]
                              ELSE store_writes
    /\ UNCHANGED <<simVars, task_queue, failed_tasks, stepVars, histVars, uuid4_next,
                   mongo_task_queue, utc_now, sideVars, mem_pattern,
                   mem_count>>

NextStore ==
    \E id \in 1..MaxTasks, up \in BOOLEAN :
        \E result_data \in StoreResults(id) : StoreResult(id, result_data, up)

SpecStore == Init /\ [][NextStore]_vars

\* ====================================================== mongodb_client.py
\* a dict with one key set
WithField(d, key, value) ==
    [k \in DOMAIN d \cup {key} |-> IF k = key THEN value ELSE d[k]]

RemoveAt(s, k) == SubSeq(s, 1, k - 1) \o SubSeq(s, k + 1, Len(s))

mongo_add_task_to_queue(coll, task, now, up) ==
    IF up THEN [ok |-> TRUE, coll |-> Append(coll, WithField(task, "created_at", now))]
          ELSE [ok |-> FALSE, coll |-> coll]

\* the documents find_one_and_delete({}, sort=[("created_at", 1)]) may take:
\* MongoDB returns documents of equal sort key in any order
OldestIndices(coll) ==
    {k \in 1..Len(coll) : \A j \in 1..Len(coll) : coll[k].created_at <= coll[j].created_at}

\* get_task_from_queue taking the document at position k
mongo_get_task_from_queue(coll, k, up) ==
    IF ~up \/ coll = <<>> THEN [task |-> None, coll |-> coll]
    ELSE [task |-> coll[k], coll |-> RemoveAt(coll, k)]

\* datetime.utcnow() as MongoDB keeps it, in whole milliseconds of the wall
\* clock: a reading is the one before, a later one, or, the clock having
\* been set back, an earlier one
MongoEnqueue(context, elapsed, up) ==
    /\ uuid4_next <= MaxTasks
    /\ LET now == utc_now + elapsed
           task == NewSubmittedTask(uuid4_next, <<"d">>, context, "None")
           e == mongo_add_task_to_queue(mongo_task_queue, task, now, up)
       IN  /\ utc_now' = now
           /\ mongo_task_queue' = e.coll
           /\ enq_log' = IF e.ok THEN Append(enq_log, uuid4_next) ELSE enq_log
    /\ uuid4_next' = uuid4_next + 1
    /\ UNCHANGED <<simVars, redisVars, stepVars, steps_run, deq_log, dequeue_attempts,
                   llm_calls, ext_ops, pre_statuses, pre_queue_len, store_writes,
                   sideVars, mem_pattern, mem_count>>

MongoDequeue(k, up) ==
    /\ mongo_task_queue # <<>>
    /\ k \in OldestIndices(mongo_task_queue)
    /\ LET r == mongo_get_task_from_queue(mongo_task_queue, k, up)
       IN  /\ mongo_task_queue' = r.coll
           /\ deq_log' = IF r.task # None THEN Append(deq_log, r.task.task_id) ELSE deq_log
    /\ UNCHANGED <<simVars, redisVars, stepVars, steps_run, enq_log, dequeue_attempts,
                   llm_calls, ext_ops, pre_statuses, pre_queue_len, uuid4_next,
                   store_writes, utc_now, sideVars, mem_pattern, mem_count>>

NextMongo ==
    \/ \E context \in {"", "c"}, elapsed \in {-1, 0, 1}, up \in BOOLEAN :
          MongoEnqueue(context, elapsed, up)
    \/ \E k \in 1..MaxTasks, up \in BOOLEAN : MongoDequeue(k, up)

SpecMongo == Init /\ [][NextMongo]_vars

\* ================================================== the bounded memory log
\* the text of the i-th add_memory call
EntryAt(i) == mem_pattern[((i - 1) % PatternLen) + 1]

\* CybersecurityAgent.add_memory
CyberAddMemory(a) ==
    /\ IsAnalyzer(a)
    /\ mem_count[a] < MaxAppends
    /\ memories' = [memories EXCEPT
                       ![a] = CybersecurityAgent_add_memory(@, EntryAt(mem_count[a] + 1))]
    /\ mem_count' = [mem_count EXCEPT ![a] = @ + 1]
    /\ UNCHANGED <<agent_statuses, generator_cooldown, analyzer_cooldown, current_time,
                   redisVars, stepVars, histVars, uuid4_next, store_writes,
                   mongo_task_queue, utc_now, sideVars, mem_pattern>>

\* CodeGeneratorAgent.add_memory
GeneratorAddMemory(a) ==
    /\ IsGenerator(a)
    /\ mem_count[a] < MaxAppends
    /\ memories' = [memories EXCEPT
                       ![a] = CodeGeneratorAgent_add_memory(@, EntryAt(mem_count[a] + 1))]
    /\ mem_count' = [mem_count EXCEPT ![a] = @ + 1]
    /\ UNCHANGED <<agent_statuses, generator_cooldown, analyzer_cooldown, current_time,
                   redisVars, stepVars, histVars, uuid4_next, store_writes,
                   mongo_task_queue, utc_now, sideVars, mem_pattern>>

InitMemory ==
    /\ InitSim
    /\ mem_pattern \in [1..PatternLen -> MemoryTexts]

NextMemory ==
    \/ \E a \in MemoryAgents : CyberAddMemory(a)
    \/ \E a \in MemoryAgents : GeneratorAddMemory(a)

SpecMemory == InitMemory /\ [][NextMemory]_vars

\* ============================================== a step on a waiting queue
\* the Redis list as n requests to /submit_task leave it, every third task
\* with an empty context
Backlog(n) ==
    [i \in 1..n |-> JsonDumps(NewSubmittedTask(i, <<"d">>,
                                               IF i % 3 = 0 THEN "" ELSE "c", "None"))]

BacklogIds(n) == [i \in 1..n |-> i]

InitBacklog ==
    /\ \E n \in 0..MaxBacklog :
          InitState(Backlog(n), BacklogIds(n), GENERATOR_COOLDOWN, ANALYZER_COOLDOWN)
    /\ mem_pattern = [i \in 1..PatternLen |-> <<"a">>]

\* the steps alone: nobody else is at the queue
NextBacklog ==
    \/ StepBegin
    \/ GenTrigger
    \/ \E llm \in StepGeneratorLLM, up \in BOOLEAN : GenFinish(llm, up)
    \/ \E up \in BOOLEAN : LenCheck(up)
    \/ \E up \in BOOLEAN : AnCheck(up)
    \/ \E up \in BOOLEAN : AnPop(up)
    \/ \E llm \in StepAnalyzerLLM, upStore \in BOOLEAN, upFailed \in BOOLEAN :
          AnAnalyze(llm, upStore, upFailed)
    \/ \E up \in BOOLEAN : Advance(up, up)

SpecBacklog == InitBacklog /\ [][NextBacklog]_vars

\* ================================================ other cooldown settings
\* the values generator_cooldown and analyzer_cooldown (main.py:45-46) may
\* be configured with
CooldownChoices == 0..GENERATOR_COOLDOWN

InitConfig ==
    /\ \E n \in 0..MaxBacklog, g \in CooldownChoices, c \in CooldownChoices :
          InitState(Backlog(n), BacklogIds(n), g, c)
    /\ mem_pattern = [i \in 1..PatternLen |-> <<"a">>]

SpecConfig == InitConfig /\ [][NextBacklog]_vars

\* ========================================== a store that never fails
\* every Redis command goes through and the step is the only consumer
NextReliable ==
    \/ StepBegin
    \/ GenTrigger
    \/ \E llm \in StepGeneratorLLM : GenFinish(llm, TRUE)
    \/ LenCheck(TRUE)
    \/ AnCheck(TRUE)
    \/ AnPop(TRUE)
    \/ AnAnalyzeRaise
    \/ \E llm \in StepAnalyzerLLM : AnAnalyze(llm, TRUE, TRUE)
    \/ Advance(TRUE, TRUE)
    \/ \E context \in {"", "c"} : submit_task_to_queue(context, TRUE)
    \/ ExternalProducer(ForeignTask(uuid4_next))

SpecReliable == Init /\ [][NextReliable]_vars

\* ============================================================ properties
IsPrefix(s, t) == Len(s) <= Len(t) /\ \A i \in 1..Len(s) : s[i] = t[i]
NoDuplicates(s) == \A i, j \in 1..Len(s) : i # j => s[i] # s[j]
Analyzers == {a \in Agents : IsAnalyzer(a)}

\* C2. At-most-one-dequeue: whatever the interleaving of the step's dequeues
\* with those of other processes and with enqueues, no task is returned by
\* two get_task_from_queue calls, every task returned was enqueued, and the
\* dequeues that returned a task never outnumber the tasks enqueued.
C2_AtMostOneDequeue ==
    /\ NoDuplicates(deq_log)
    /\ \A i \in 1..Len(deq_log) : \E j \in 1..Len(enq_log) : deq_log[i] = enq_log[j]
    /\ Len(deq_log) <= Len(enq_log)

\* two tasks have been returned, the second to the step while another
\* process has been at the queue during this step
C2_Witness ==
    /\ pc = "analyzing"
    /\ ext_ops
    /\ Len(deq_log) = 2
    /\ deq_log[2] = task_data.task_id

\* C3. Cooldown monotonicity, as claimed: an agent whose cooldown_steps was
\* positive before a step has a counter exactly one smaller when the step has
\* handled every agent, and it is idle exactly if that counter is zero.
C3_CooldownMonotonicity ==
    pc = "advance" =>
        \A a \in Agents :
            pre_statuses[a].cooldown_steps > 0 =>
                /\ agent_statuses[a].cooldown_steps = pre_statuses[a].cooldown_steps - 1
                /\ (agent_statuses[a].status = "idle"
                        <=> agent_statuses[a].cooldown_steps = 0)

\* C5. Scenario A: a step that began with the queue empty, in which no task
\* was generated and nobody else touched the queue, has made no dequeue
\* attempt when it has handled every agent; the queue is still empty and
\* every analyzer that was idle is idle.
C5_ScenarioA ==
    (pc = "advance" /\ pre_queue_len = 0 /\ ~ext_ops /\ ~enqueue_ok) =>
        /\ dequeue_attempts = 0
        /\ task_queue = <<>>
        /\ \A a \in Analyzers :
              pre_statuses[a].status = "idle" => agent_statuses[a] = pre_statuses[a]

C5_Witness ==
    /\ pc = "advance"
    /\ pre_queue_len = 0
    /\ ~ext_ops
    /\ ~enqueue_ok
    /\ \A a \in Analyzers : pre_statuses[a].status = "idle"
    /\ generated_data = None
    /\ llm_calls = 1

\* C6. Scenario B: when the generator's perform_task returns data and the
\* enqueue succeeds, the queue is the old queue with exactly one task added
\* at its tail; that task is pending, its context is the generated code and
\* its submitted_by the generator's name; the generator is in cooldown with
\* cooldown_steps equal to the configured generator_cooldown.
C6_ScenarioB ==
    [][(pc = "generating" /\ generated_data' # None /\ enqueue_ok') =>
         LET a == AgentOrder[cur]
             t == JsonLoads(task_queue'[Len(task_queue')])
         IN  /\ Len(task_queue') = Len(task_queue) + 1
             /\ SubSeq(task_queue', 1, Len(task_queue)) = task_queue
             /\ t.status = "pending"
             /\ t.context = generated_data'.code
             /\ t.submitted_by = a
             /\ t.language = generated_data'.language
             /\ agent_statuses'[a].status = "cooldown"
             /\ agent_statuses'[a].cooldown_steps = generator_cooldown
      ]_vars

C6_Witness ==
    /\ pc = "len"
    /\ generated_data # None
    /\ generated_data.code = "c"
    /\ enqueue_ok
    /\ Len(task_queue) = pre_queue_len + 1
    /\ agent_statuses["CodeGen"].status = "cooldown"

\* the analysis of a task that has all its fields and an empty context
EmptyContextAnalysis ==
    /\ pc = "analyzing"
    /\ pc' # "analyzing"
    /\ "description" \in DOMAIN task_data
    /\ "context" \in DOMAIN task_data
    /\ task_data.context = ""

\* C7. Scenario C, as claimed: the analysis of a task with an empty context
\* does not call the LLM, returns the fixed error string, leaves a Result of
\* status analysis_failed in the store and one more FailedTask record, and
\* sends the analyzer to cooldown with the configured analyzer_cooldown.
C7_ScenarioC_AsClaimed ==
    [][EmptyContextAnalysis =>
         LET a == AgentOrder[cur]
             id == task_data.task_id
         IN  /\ llm_calls' = llm_calls
             /\ analysis_result' = ErrNoContext
             /\ get_result(results_store', id, TRUE) # None
             /\ get_result(results_store', id, TRUE).status = "analysis_failed"
             /\ Len(failed_tasks') = Len(failed_tasks) + 1
             /\ agent_statuses'[a].status = "cooldown"
             /\ agent_statuses'[a].cooldown_steps = analyzer_cooldown
      ]_vars

\* C7. Scenario C, amended: as claimed, but the Result is in the store if
\* store_result succeeded and the FailedTask record is appended if
\* add_failed_task succeeded; a failed store command changes nothing in its
\* store, and the analyzer goes to cooldown either way.
C7_ScenarioC ==
    [][EmptyContextAnalysis =>
         LET a == AgentOrder[cur]
             id == task_data.task_id
         IN  /\ llm_calls' = llm_calls
             /\ analysis_result' = ErrNoContext
             /\ IF store_ok'
                THEN get_result(results_store', id, TRUE) =
                        [task_id |-> id, original_task |-> task_data,
                         analysis_result |-> ErrNoContext, analyzed_by |-> a,
                         status |-> "analysis_failed"]
                ELSE results_store' = results_store
             /\ IF failed_ok'
                THEN failed_tasks' = Append(failed_tasks,
                        JsonDumps([failed_task |-> task_data, error |-> ErrNoContext]))
                ELSE failed_tasks' = failed_tasks
             /\ agent_statuses'[a].status = "cooldown"
             /\ agent_statuses'[a].current_task_id = NoTaskId
             /\ agent_statuses'[a].cooldown_steps = analyzer_cooldown
      ]_vars

C7_Witness ==
    /\ analysis_result = ErrNoContext
    /\ store_ok
    /\ failed_ok
    /\ llm_calls = 0
    /\ task_data # None
    /\ task_data.context = ""
    /\ get_result(results_store, task_data.task_id, TRUE).status = "analysis_failed"
    /\ Len(failed_tasks) = 1
    /\ agent_statuses["PyScanner"].status = "cooldown"

\* the edges of the status state machine
StatusEdge(s, t) ==
    \/ s = t
    \/ s = "idle" /\ t \in {"generating", "analyzing"}
    \/ s \in {"generating", "analyzing"} /\ t = "cooldown"
    \/ s = "cooldown" /\ t = "idle"

\* C9. Status state machine: every change of an agent's status follows
\* idle -> generating|analyzing -> cooldown -> idle, and when the step goes
\* on to invoke an agent's capability that agent was idle.
C9_StatusStateMachine ==
    [][/\ \A a \in Agents : StatusEdge(agent_statuses[a].status, agent_statuses'[a].status)
       /\ (pc' \in {"generating", "analyzing"} /\ pc' # pc) =>
              agent_statuses[AgentOrder[cur']].status = "idle"
      ]_vars

\* an analyzer that has been through cooldown and idle is analyzing again
C9_Witness ==
    /\ agent_statuses["PyScanner"].status = "analyzing"
    /\ \E id \in DOMAIN results_store :
          JsonLoads(results_store[id]).analyzed_by = "PyScanner"

\* C10. No in-progress state across step boundaries, as claimed: when no
\* step is running every agent is idle or in cooldown.
C10_NoInProgressBetweenSteps ==
    pc = "idle" => \A a \in Agents : agent_statuses[a].status \in {"idle", "cooldown"}

\* The Redis queue is first in, first out: the tasks returned are a prefix of
\* the tasks enqueued (checked under Spec).
RedisFIFO == IsPrefix(deq_log, enq_log)

\* C1. FIFO, as claimed: the tasks returned by get_task_from_queue are, in
\* order, the first of the tasks enqueued with success; after n enqueues and
\* n dequeues that returned a task, the dequeues returned T1..Tn in order.
C1_FIFO == IsPrefix(deq_log, enq_log)

\* C4. Idempotent result overwrite: under every task id that had a
\* successful store_result, get_result returns the result of the last such
\* call, under any other id nothing, and get_results_count is the number of
\* ids stored under, however often each was stored.
C4_ResultOverwrite ==
    /\ \A id \in 1..MaxTasks :
          get_result(results_store, id, TRUE) =
             IF store_writes[id] = <<>> THEN None
             ELSE store_writes[id][Len(store_writes[id])]
    /\ get_results_count(results_store, TRUE) =
          Cardinality({id \in 1..MaxTasks : store_writes[id] # <<>>})

\* two different results were stored under one id, and nothing under another
C4_Witness ==
    \E id \in 1..MaxTasks :
        /\ Len(store_writes[id]) = 2
        /\ store_writes[id][1] # store_writes[id][2]
        /\ get_result(results_store, id, TRUE) = store_writes[id][2]
        /\ get_results_count(results_store, TRUE) = 1

MemoryCap(a) == IF IsGenerator(a) THEN GENERATOR_MEMORY_CAP ELSE CYBER_MEMORY_CAP
Min(x, y) == IF x <= y THEN x ELSE y

\* C8. Bounded memory log: after any number of add_memory calls the log is
\* no longer than the cap of the agent's class and holds exactly the last
\* cap-many texts appended, in the order appended, repeated texts included;
\* with a cap of 2, appending a, b, c leaves b, c.
C8_BoundedMemory ==
    /\ \A a \in MemoryAgents :
          LET n == mem_count[a]
              k == Min(n, MemoryCap(a))
          IN  /\ Len(memories[a]) = k
              /\ \A i \in 1..k : memories[a][i] = EntryAt(n - k + i)
    /\ AppendCapped(AppendCapped(AppendCapped(<<>>, <<"a">>, 2), <<"b">>, 2), <<"c">>, 2)
          = << <<"b">>, <<"c">> >>

\* both logs have evicted entries, of texts that differ
C8_Witness ==
    /\ mem_pattern[1] # mem_pattern[2]
    /\ mem_count["PyScanner"] = CYBER_MEMORY_CAP + 2
    /\ Len(memories["PyScanner"]) = CYBER_MEMORY_CAP
    /\ mem_count["CodeGen"] = GENERATOR_MEMORY_CAP + 1
    /\ Len(memories["CodeGen"]) = GENERATOR_MEMORY_CAP

\* C11. current_task_id invariant: in every reachable state an agent that
\* has a current_task_id is analyzing; an agent that is idle, generating or
\* in cooldown has none.
C11_CurrentTaskId ==
    \A a \in Agents :
        agent_statuses[a].current_task_id # NoTaskId => agent_statuses[a].status = "analyzing"

\* one analyzer is back in cooldown without a task id, the next one holds
\* the task it has just been given
C11_Witness ==
    /\ agent_statuses["PyScanner"].status = "cooldown"
    /\ agent_statuses["PyScanner"].current_task_id = NoTaskId
    /\ \E id \in DOMAIN results_store :
          JsonLoads(results_store[id]).analyzed_by = "PyScanner"
    /\ agent_statuses["JavaScanner"].status = "analyzing"
    /\ agent_statuses["JavaScanner"].current_task_id # NoTaskId
    /\ agent_statuses["JavaScanner"].current_task_id = deq_log[Len(deq_log)]

\* the events of the current step that report a perform_task call of agent a
WorkEvents(a) ==
    SelectSeq(step_events, LAMBDA e : e[1] = a /\ e[2] # "finished cooldown, now idle")

\* C12. At most one unit of work per agent per step: within one step no
\* agent's perform_task is called twice, the step calls get_task_from_queue
\* at most once per analyzer and the LLM at most once per agent, however
\* many tasks wait in the queue.
C12_OneUnitOfWork ==
    /\ \A a \in Agents : Len(WorkEvents(a)) <= 1
    /\ dequeue_attempts <= Cardinality(Analyzers)
    /\ llm_calls <= Cardinality(Agents)

\* every agent has worked in this step and a task is still waiting
C12_Witness ==
    /\ pc = "advance"
    /\ task_queue # <<>>
    /\ \A a \in Agents : Len(WorkEvents(a)) = 1
    /\ dequeue_attempts = Cardinality(Analyzers)
    /\ llm_calls = Cardinality(Agents)

Generators == {a \in Agents : IsGenerator(a)}

\* C13. Generator always cools down: a generator whose perform_task was
\* called in this step is in cooldown with cooldown_steps equal to
\* generator_cooldown from then to the end of the step, whether a task was
\* generated, nothing was generated or the enqueue failed; and a generator
\* that is generating did not end the step before in fresh cooldown.
C13_GeneratorCoolsDown ==
    \A g \in Generators :
        /\ WorkEvents(g) # <<>> =>
              /\ agent_statuses[g].status = "cooldown"
              /\ agent_statuses[g].cooldown_steps = generator_cooldown
        /\ agent_statuses[g].status = "generating" =>
              ~(/\ pre_statuses[g].status = "cooldown"
                /\ pre_statuses[g].cooldown_steps = generator_cooldown)

\* the step after a failed generation ends without the generator invoked
C13_Witness ==
    /\ pc = "advance"
    /\ steps_run = 2
    /\ uuid4_next = 1
    /\ Len(memories["CodeGen"]) = 1
    /\ pre_statuses["CodeGen"].status = "cooldown"
    /\ pre_statuses["CodeGen"].cooldown_steps = generator_cooldown
    /\ agent_statuses["CodeGen"].status = "cooldown"
    /\ WorkEvents("CodeGen") = <<>>

\* C14. Cooldown as ineligibility period, as claimed: an agent that finished
\* work in step k with cooldown N >= 1 is given no work in steps k+1..k+N.
\* The counter is N after step k and one smaller after each later step, so
\* these are the steps that begin with the agent in cooldown and its counter
\* at 1 or more: in such a step the agent is neither generating nor analyzing.
C14_CooldownIneligible ==
    \A a \in Agents :
        (/\ pc # "idle"
         /\ pre_statuses[a].status = "cooldown"
         /\ pre_statuses[a].cooldown_steps >= 1) =>
            agent_statuses[a].status \notin {"generating", "analyzing"}

\* the cooldown configured for the class of agent a
ConfiguredCooldown(a) == IF IsGenerator(a) THEN generator_cooldown ELSE analyzer_cooldown

\* C15. Zero-cooldown edge case, as claimed: with a configured cooldown of 0
\* an agent that is in cooldown when a step begins is idle once that step has
\* updated the cooldowns.
C15_ZeroCooldown ==
    [][(pc = "idle" /\ pc' # "idle") =>
         \A a \in Agents :
            (ConfiguredCooldown(a) = 0 /\ agent_statuses[a].status = "cooldown") =>
                agent_statuses'[a].status = "idle"
      ]_vars

\* C16. Oldest-first service across steps: of two tasks enqueued one before
\* the other, the later one is handed out only after the earlier one has
\* been handed out.
C16_OldestFirst ==
    \A i, j \in 1..Len(enq_log) :
        i < j =>
            \A n \in 1..Len(deq_log) :
                deq_log[n] = enq_log[j] => \E m \in 1..(n - 1) : deq_log[m] = enq_log[i]

\* two tasks were handed to analyzers in two different steps, in the order
\* they were enqueued
C16_Witness ==
    /\ steps_run = 2
    /\ pc = "analyzing"
    /\ ~ext_ops
    /\ dequeue_attempts = 1
    /\ Len(enq_log) = 2
    /\ deq_log = enq_log

\* C17. No starvation, as claimed, for the part a finite run decides: the
\* Result of a task is stored only by the step that dequeued it, so once that
\* step is over every task dequeued has a Result in the store.
C17_NoTaskLost ==
    pc = "idle" => \A n \in 1..Len(deq_log) : deq_log[n] \in DOMAIN results_store

\* C18. Store failures are non-fatal: a failed enqueue of a generated task
\* or a failed store_result raises nothing, the acting agent goes to cooldown
\* and the step goes on with the next agent; and the step that has handled
\* its agents advances the clock and answers with the summary.
C18_StoreFailureNonFatal ==
    [][/\ (pc = "generating" /\ generated_data' # None /\ ~enqueue_ok') =>
            /\ agent_statuses'[AgentOrder[cur]].status = "cooldown"
            /\ agent_statuses'[AgentOrder[cur]].cooldown_steps = generator_cooldown
            /\ pc' \in {"gen", "len"}
            /\ response' = response
       /\ (pc = "analyzing" /\ pc' # "analyzing" /\ ~store_ok') =>
            /\ agent_statuses'[AgentOrder[cur]].status = "cooldown"
            /\ agent_statuses'[AgentOrder[cur]].cooldown_steps = analyzer_cooldown
            /\ pc' \in {"check", "advance"}
            /\ response' = response
       /\ pc = "advance" =>
            /\ pc' = "idle"
            /\ current_time' = current_time + time_step_minutes
            /\ response'.status = 200
      ]_vars

\* a step in which the enqueue and a store_result failed is at its end
C18_Witness ==
    /\ pc = "advance"
    /\ generated_data # None
    /\ ~enqueue_ok
    /\ analysis_result # <<>>
    /\ ~store_ok
    /\ results_store = <<>>
    /\ deq_log # <<>>
    /\ agent_statuses["CodeGen"].status = "cooldown"
    /\ agent_statuses["PyScanner"].status = "cooldown"

\* C19. Unexpected error inside a step, as claimed: after a step answered
\* with HTTP 500 no agent is generating or analyzing and none has a
\* current_task_id.
C19_ErrorLeavesStatusClean ==
    response.status = 500 =>
        \A a \in Agents :
            /\ agent_statuses[a].status \in {"idle", "cooldown"}
            /\ agent_statuses[a].current_task_id = NoTaskId

\* the task the analyzer holds lacks a field or has an empty context
InputError ==
    \/ "description" \notin DOMAIN task_data
    \/ "context" \notin DOMAIN task_data
    \/ task_data.context = ""

\* C20. Input errors never escalate, as claimed: the analysis of a task with
\* a missing field or an empty context does not fail the step, gives an
\* error-tagged result text and, when the store takes it, a Result of status
\* analysis_failed under the task's id.
C20_InputErrorsHandled ==
    [][(pc = "analyzing" /\ pc' # "analyzing" /\ InputError) =>
         /\ response'.status # 500
         /\ StartsWith(analysis_result', "Error:")
         /\ store_ok' =>
               get_result(results_store', task_data.task_id, TRUE).status = "analysis_failed"
      ]_vars

\* ======================================= steps and /submit_task requests
\* a process that finds tasks waiting, serves /step and /submit_task, and
\* shares the queue with no other producer
NextSubmit ==
    \/ NextBacklog
    \/ \E context \in {"", "c"}, up \in BOOLEAN : submit_task_to_queue(context, up)

SpecSubmit == InitBacklog /\ [][NextSubmit]_vars

\* a /submit_task request is served: it draws a task id and is no part of
\* the step
SubmitServed == uuid4_next' # uuid4_next /\ pc' = pc

\* C21. Manual task submission: a /submit_task request leaves every agent's
\* status, the result store, the failed-task list and the simulated clock
\* unchanged and does not move the step; when the enqueue goes through the
\* queue is the old queue with exactly one task added at its tail, behind
\* all tasks already pending, and that task has submitted_by "User",
\* status pending and the context submitted; no step has touched it.
C21_ManualSubmission ==
    [][SubmitServed =>
         /\ agent_statuses' = agent_statuses
         /\ results_store' = results_store
         /\ failed_tasks' = failed_tasks
         /\ current_time' = current_time
         /\ memories' = memories
         /\ deq_log' = deq_log
         /\ IF enq_log' # enq_log
            THEN /\ Len(task_queue') = Len(task_queue) + 1
                 /\ SubSeq(task_queue', 1, Len(task_queue)) = task_queue
                 /\ LET t == JsonLoads(task_queue'[Len(task_queue')])
                    IN  /\ t.task_id = uuid4_next
                        /\ t.submitted_by = "User"
                        /\ t.status = "pending"
                        /\ t.context \in {"", "c"}
                        /\ enq_log' = Append(enq_log, t.task_id)
            ELSE task_queue' = task_queue
      ]_vars

\* a task submitted while a step is running stands behind the task that
\* was already pending, and the agents and the clock are as the step left
\* them
C21_Witness ==
    /\ pc = "len"
    /\ ext_ops
    /\ Len(task_queue) = 2
    /\ JsonLoads(task_queue[2]).submitted_by = "User"
    /\ JsonLoads(task_queue[2]).task_id = 2
    /\ JsonLoads(task_queue[1]).task_id = 1
    /\ agent_statuses["CodeGen"].status = "cooldown"

\* perform_task has returned its text to the step (main.py:123-127), which
\* goes on to store the result
AnalysisReturned ==
    /\ pc = "analyzing"
    /\ pc' # "analyzing"
    /\ response'.status # 500

\* the Result main.py:131-138 is to build from the task held, the text
\* returned and the agent at work
ExpectedResult ==
    [task_id |-> task_data.task_id,
     original_task |-> task_data,
     analysis_result |-> analysis_result',
     analyzed_by |-> AgentOrder[cur],
     status |-> IF Len(analysis_result') >= 1 /\ analysis_result'[1] = "Error:"
                THEN "analysis_failed" ELSE "completed"]

\* C22. Result classification, as claimed: after every analysis the store
\* holds, under the task's id, the Result with the dequeued task as
\* original_task, the agent as analyzed_by and status analysis_failed if
\* and only if the text begins with "Error:"; and one FailedTask record is
\* appended if and only if the status is analysis_failed.
C22_Classification_AsClaimed ==
    [][AnalysisReturned =>
         /\ get_result(results_store', task_data.task_id, TRUE) = ExpectedResult
         /\ IF ExpectedResult.status = "analysis_failed"
            THEN Len(failed_tasks') = Len(failed_tasks) + 1
            ELSE failed_tasks' = failed_tasks
      ]_vars

\* C22. Result classification, amended: the Result built has the dequeued
\* task's id, the dequeued task as original_task, the agent as analyzed_by
\* and status analysis_failed if and only if the text begins with "Error:";
\* it is the value under the task's id when store_result succeeded, and
\* the store is unchanged otherwise; a FailedTask record of the task and
\* the text is appended if and only if the status is analysis_failed and
\* add_failed_task succeeded.
C22_Classification ==
    [][AnalysisReturned =>
         /\ IF store_ok'
            THEN /\ get_result(results_store', task_data.task_id, TRUE) = ExpectedResult
                 /\ \A id \in DOMAIN results_store :
                       id # task_data.task_id => results_store'[id] = results_store[id]
            ELSE results_store' = results_store
         /\ IF ExpectedResult.status = "analysis_failed" /\ failed_ok'
            THEN failed_tasks' =
                    Append(failed_tasks, JsonDumps([failed_task |-> task_data,
                                                    error |-> analysis_result']))
            ELSE failed_tasks' = failed_tasks
      ]_vars

\* JavaScanner's LLM completion itself begins with "Error:": the Result is
\* stored as analysis_failed and the FailedTask record is there
C22_Witness ==
    /\ pc = "advance"
    /\ analysis_result = <<"Error:", "said the model">>
    /\ store_ok
    /\ failed_ok
    /\ task_data # None
    /\ get_result(results_store, task_data.task_id, TRUE) # None
    /\ get_result(results_store, task_data.task_id, TRUE).status = "analysis_failed"
    /\ get_result(results_store, task_data.task_id, TRUE).analyzed_by = "JavaScanner"
    /\ get_result(results_store, task_data.task_id, TRUE).original_task = task_data
    /\ failed_tasks # <<>>
    /\ JsonLoads(failed_tasks[Len(failed_tasks)]).failed_task = task_data

\* ================================== a reliable store with a second worker
\* every Redis command goes through; another worker process takes tasks
\* from the same list at any moment
NextRace ==
    \/ NextReliable
    \/ ExternalConsumer

SpecRace == Init /\ [][NextRace]_vars

\* C23. Stale length / raced dequeue: when the dequeue of a step comes back
\* empty, the agent that asked is and stays idle with no current_task_id
\* and no cooldown, no agent's status changes, the step raises nothing and
\* leaves the analyzer loop; from there it makes no further dequeue attempt
\* and ends with its summary (HTTP 200).
C23_RacedDequeue ==
    [][/\ (pc = "pop" /\ pc' # "pop" /\ pc' # "analyzing") =>
            /\ pc' = "advance"
            /\ response'.status # 500
            /\ dequeue_attempts' = dequeue_attempts + 1
            /\ agent_statuses' = agent_statuses
            /\ agent_statuses'[AgentOrder[cur]] = InitialStatus
       /\ pc = "advance" =>
            /\ dequeue_attempts' \in {dequeue_attempts, 0}
            /\ agent_statuses' = agent_statuses
            /\ pc' \in {"advance", "idle"}
            /\ pc' = "idle" => response'.status = 200
      ]_vars

\* the length was read as 1, another worker took the task, PyScanner's
\* dequeue came back empty: the step is past the loop, JavaScanner was not
\* tried and both analyzers are idle
C23_Witness ==
    /\ pc = "advance"
    /\ task_queue_length = 1
    /\ dequeue_attempts = 1
    /\ task_data = None
    /\ task_queue = <<>>
    /\ enq_log = <<1>>
    /\ deq_log = <<1>>
    /\ results_store = <<>>
    /\ \A a \in Analyzers : agent_statuses[a] = InitialStatus

\* ============================== every outcome of the LLM collaborator
\* the steps on a waiting queue, Redis reliable, the LLM call ending in any
\* of the ways perform_task tells apart
NextCollaborator ==
    \/ StepBegin
    \/ GenTrigger
    \/ \E llm \in GeneratorLLM : GenFinish(llm, TRUE)
    \/ LenCheck(TRUE)
    \/ AnCheck(TRUE)
    \/ AnPop(TRUE)
    \/ \E llm \in AnalyzerLLM : AnAnalyze(llm, TRUE, TRUE)
    \/ Advance(TRUE, TRUE)

SpecCollaborator == InitBacklog /\ [][NextCollaborator]_vars

\* the LLM calls that fail: timeout, connection failure, bad status, a
\* response that cannot be parsed or lacks what is asked for
GeneratorFailures == {llm \in GeneratorLLM : llm.kind # "ok"}
AnalyzerFailures == {llm \in AnalyzerLLM : llm.kind # "ok"}

\* the memory log `after` is `before` with one entry beginning with
\* "Error:" appended
OneErrorEntryAdded(before, after) ==
    /\ Len(after) = Len(before) + 1
    /\ SubSeq(after, 1, Len(before)) = before
    /\ StartsWith(after[Len(after)], "Error:")

\* C24. Collaborator failures are contained: when the LLM call of a
\* generator fails in any way, perform_task returns empty, the generator's
\* memory gets exactly one entry beginning with "Error:", the generator
\* goes to cooldown and the step goes on with the next agent; when the LLM
\* call of an analyzer fails in any way, perform_task returns a text
\* beginning with "Error:", the analyzer's memory gets exactly one entry
\* beginning with "Error:", and the step goes on with the next analyzer or
\* to the clock advance; no other agent's memory changes and the step is
\* not answered with HTTP 500.
C24_CollaboratorFailuresContained ==
    [][/\ \A llm \in GeneratorFailures :
            GenFinish(llm, TRUE) =>
               /\ generated_data' = None
               /\ OneErrorEntryAdded(memories[AgentOrder[cur]], memories'[AgentOrder[cur]])
               /\ \A a \in Agents \ {AgentOrder[cur]} : memories'[a] = memories[a]
               /\ agent_statuses'[AgentOrder[cur]].status = "cooldown"
               /\ task_queue' = task_queue
               /\ pc' \in {"gen", "len"}
               /\ response'.status # 500
       /\ \A llm \in AnalyzerFailures :
            (AnAnalyze(llm, TRUE, TRUE) /\ task_data.context # "") =>
               /\ StartsWith(analysis_result', "Error:")
               /\ OneErrorEntryAdded(memories[AgentOrder[cur]], memories'[AgentOrder[cur]])
               /\ \A a \in Agents \ {AgentOrder[cur]} : memories'[a] = memories[a]
               /\ agent_statuses'[AgentOrder[cur]].status = "cooldown"
               /\ pc' = AfterAnalyzer(agent_statuses', cur + 1).pc
               /\ pc' \in {"check", "advance"}
               /\ response'.status # 500
      ]_vars

\* in one step the generator's call and PyScanner's call have failed and
\* the step still went on to JavaScanner, whose call failed too; each of
\* the three has its one error entry
C24_Witness ==
    /\ steps_run = 1
    /\ pc = "advance"
    /\ llm_calls = 3
    /\ generated_data = None
    /\ memories["CodeGen"] = <<(<<"Error:", "LLM connection failed -", "bad_status">>)>>
    /\ memories["PyScanner"] = <<(<<"Error:", "LLM request timed out.">>)>>
    /\ memories["JavaScanner"] = <<(<<"Error:", "LLM connection failed -", "bad_json">>)>>
    /\ StartsWith(analysis_result, "Error:")
    /\ Cardinality(DOMAIN results_store) = 2

\* ======================================================== GET /tasks
\* GET /tasks?limit=n (main.py:228-232)
get_pending_tasks(limit, up) ==
    /\ tasks_response' =
          [status |-> 200,
           limit |-> limit,
           pending_tasks |-> peek_tasks(task_queue, limit, up),
           count |-> Len(peek_tasks(task_queue, limit, up)),
           total_in_queue |-> get_queue_length(task_queue, up)]
    /\ UNCHANGED <<simVars, redisVars, stepVars, histVars, uuid4_next, store_writes,
                   mongo_task_queue, utc_now, mongoStoreVars, mem_pattern, mem_count>>

\* the pending queue is listed between submissions and dequeues; every
\* Redis command goes through and every entry is a task of /submit_task
NextPeek ==
    \/ \E limit \in 0..MaxLimit : get_pending_tasks(limit, TRUE)
    \/ \E context \in {"", "c"} : submit_task_to_queue(context, TRUE)
    \/ ExternalConsumer

SpecPeek == InitBacklog /\ [][NextPeek]_vars

\* C25. peek is bounded and non-destructive, as claimed: a GET /tasks with
\* limit >= 0 answers the oldest min(limit, length) pending tasks, oldest
\* first, never more than limit of them (none for limit = 0), and leaves
\* the queue and its length as they were.
C25_PeekBounded ==
    [][tasks_response' # tasks_response =>
         LET r == tasks_response'
             k == Min(r.limit, Len(task_queue))
         IN  /\ Len(r.pending_tasks) <= r.limit
             /\ r.pending_tasks = [i \in 1..k |-> JsonLoads(task_queue[i])]
             /\ r.count = k
             /\ r.total_in_queue = Len(task_queue)
             /\ task_queue' = task_queue
      ]_vars

\* ============================================ the MongoDB result store
\* a datetime object, and datetime.isoformat(): the string of a time, not
\* the time
datetime(t) == [datetime |-> t]
isoformat(t) == [iso |-> t]

\* update_one with {"$set": data}: the fields of data are written into the
\* document and its other fields stay
MongoSet(doc, data) ==
    [k \in DOMAIN doc \cup DOMAIN data |-> IF k \in DOMAIN data THEN data[k] ELSE doc[k]]

\* mongodb_client.store_result: the caller's dict gets task_id and
\* completion_time = utcnow() and is $set into the document of that
\* task_id, which is created from it when there is none (upsert)
mongo_store_result(coll, task_id, result_data, now, up) ==
    LET data == WithField(WithField(result_data, "task_id", task_id),
                          "completion_time", datetime(now))
        doc == IF task_id \in DOMAIN coll THEN MongoSet(coll[task_id], data) ELSE data
    IN  IF up THEN [ok |-> TRUE, coll |-> HSet(coll, task_id, doc)]
              ELSE [ok |-> FALSE, coll |-> coll]

\* mongodb_client.get_result
mongo_get_result(coll, task_id) ==
    IF task_id \in DOMAIN coll THEN coll[task_id] ELSE None

\* the dicts a caller stores under a task id: the Result of main.py:131-138
\* with its completion_time string, for a finding and for a failure, and a
\* dict that has only some of those fields
MongoResults(id) ==
    { WithField(ResultEntry(id, NewSubmittedTask(id, <<"d">>, "c", "None"),
                            <<"finding">>, "PyScanner"),
                "completion_time", isoformat(0)),
      WithField(ResultEntry(id, NewSubmittedTask(id, <<"d">>, "c", "None"),
                            <<"Error:", "LLM request timed out.">>, "JavaScanner"),
                "completion_time", isoformat(0)),
      [task_id |-> id, status |-> "completed", completion_time |-> isoformat(0)] }

\* store_result(task_id, result_data) is called on the MongoDB client
MongoStoreResult(id, result_data, elapsed, up) ==
    /\ Len(mongo_stored[id]) < MaxMongoWrites
    /\ utc_now + elapsed <= MaxClock
    /\ LET now == utc_now + elapsed
           s == mongo_store_result(mongo_results_store, id, result_data, now, up)
       IN  /\ utc_now' = now
           /\ mongo_results_store' = s.coll
           /\ mongo_stored' = IF s.ok
                              THEN [mongo_stored EXCEPT ![id] = Append(@, result_data)]
                              ELSE mongo_stored
    /\ UNCHANGED <<simVars, redisVars, stepVars, histVars, uuid4_next, store_writes,
                   mongo_task_queue, queryVars, mem_pattern, mem_count>>

NextMongoStore ==
    \E id \in 1..MaxTasks, elapsed \in {0, 1}, up \in BOOLEAN :
       \E result_data \in MongoResults(id) : MongoStoreResult(id, result_data, elapsed, up)

SpecMongoStore == Init /\ [][NextMongoStore]_vars

\* C26. MongoDB result store is last-writer-wins with no merge, as claimed:
\* after store_result(id, R1) and then store_result(id, R2) on the MongoDB
\* client, get_result(id) is R2 exactly: it has the fields of R2 and no
\* others, each with the value the caller passed, completion_time included.
C26_MongoLastWriterWins ==
    \A id \in 1..MaxTasks :
        Len(mongo_stored[id]) >= 2 =>
            mongo_get_result(mongo_results_store, id) = mongo_stored[id][Len(mongo_stored[id])]

\* a step ends with its summary (HTTP 200)
StepCompletes == pc # "idle" /\ pc' = "idle" /\ response'.status = 200

\* C27. Clock advance: a step that completes moves the simulated time
\* forward by exactly time_step_minutes, whatever work it did, and reports
\* the time it began at and the time after it; nothing else moves the
\* clock, so after n completed steps the time is the start time plus n
\* step sizes and it never moves backwards.
C27_ClockAdvance ==
    [][IF StepCompletes
       THEN /\ current_time' = current_time + time_step_minutes
            /\ response'.step_time = current_time
            /\ response'.next_time = current_time'
       ELSE current_time' = current_time
      ]_vars

\* two steps have completed, the first with a task generated and analysed,
\* the second with nothing to do but a cooldown ending; the clock stands
\* at two step sizes
C27_Witness ==
    /\ pc = "idle"
    /\ steps_run = 2
    /\ response.status = 200
    /\ current_time = 2 * time_step_minutes
    /\ response.next_time = current_time
    /\ response.results_count = 1
    /\ response.queue_length = 0
    /\ response.step_events = <<(<<"PyScanner", "finished cooldown, now idle">>)>>

\* the ids of the tasks pending in the Redis list
PendingIds == { JsonLoads(task_queue[i]).task_id : i \in 1..Len(task_queue) }

\* the ids a sequence of ids holds
IdsOf(log) == { log[i] : i \in 1..Len(log) }

\* C28. Task conservation, as claimed: when no step is running, every task
\* that was enqueued with success is either pending in the queue or has a
\* Result under its task_id, never both and never neither, and the number
\* of tasks enqueued is the queue length plus the results count.
C28_TaskConservation_AsClaimed ==
    pc = "idle" =>
        /\ \A id \in IdsOf(enq_log) : (id \in PendingIds) # (id \in DOMAIN results_store)
        /\ Len(enq_log) = Len(task_queue) + Cardinality(DOMAIN results_store)

\* every enqueued task is pending or was dequeued, once and not both, and
\* only dequeued tasks have a Result
DequeuedOrPending ==
    /\ NoDuplicates(enq_log)
    /\ NoDuplicates(deq_log)
    /\ Cardinality(PendingIds) = Len(task_queue)
    /\ PendingIds \cap IdsOf(deq_log) = {}
    /\ PendingIds \cup IdsOf(deq_log) = IdsOf(enq_log)
    /\ DOMAIN results_store \subseteq IdsOf(deq_log)
    /\ Len(enq_log) = Len(task_queue) + Len(deq_log)

\* C28. Task conservation, amended: when no step is running, every task
\* that was enqueued with success is either pending in the queue or was
\* dequeued exactly once, never both and never neither, and only dequeued
\* tasks have a Result; the analysis of a dequeued task leaves exactly one
\* Result under its task_id when store_result succeeded and leaves the
\* result store as it was when store_result failed, in which case the task
\* is neither pending nor stored.
C28_TaskConservation ==
    [][/\ pc' = "idle" => DequeuedOrPending'
       /\ AnalysisReturned =>
             IF store_ok'
             THEN /\ DOMAIN results_store' = DOMAIN results_store \cup {task_data.task_id}
                  /\ task_data.task_id \notin DOMAIN results_store
             ELSE results_store' = results_store
      ]_vars

\* between steps: of three tasks enqueued one is still pending, one has
\* its Result, and one was dequeued by a step whose store_result failed
C28_Witness ==
    /\ pc = "idle"
    /\ steps_run >= 1
    /\ Len(enq_log) = 3
    /\ Len(task_queue) = 1
    /\ Len(deq_log) = 2
    /\ Cardinality(DOMAIN results_store) = 1
    /\ JsonLoads(task_queue[1]).submitted_by = "User"

\* the running step began with the queue empty and its generator has put
\* a task on it
GeneratedOnEmpty == pc # "idle" /\ pre_queue_len = 0 /\ enqueue_ok

\* the id of the task enqueued last
GeneratedId == enq_log[Len(enq_log)]

\* the analyzers that are idle when the analysis phase of the running step
\* begins
IdleForAnalysis == { a \in Analyzers : UpdateCooldowns(pre_statuses)[a].status = "idle" }

====
